---- MODULE Spec2Model ----
(***************************************************************************)
(* Model of scripts/analyze_latency.py: one run of main() over a log file. *)
(*                                                                         *)
(* The log is a sequence of lines.  Each line is abstracted to the tokens  *)
(* the regular expression of parse_logs looks at: whether it carries a     *)
(* timestamp, and which one of the six required fragments (header,         *)
(* Samples, P50, P95, P99, status token) it contains, with its values.     *)
(* Latencies are whole milliseconds; averages are kept as exact fractions  *)
(* (sum, count) and compared by cross-multiplication.                      *)
(***************************************************************************)
EXTENDS Integers, Sequences, FiniteSets, TLC

VARIABLES log, fileExists, args, csvWritable,
          samples, report, stdout, stderr, csvFile, pc, exitCode

vars == <<log, fileExists, args, csvWritable,
          samples, report, stdout, stderr, csvFile, pc, exitCode>>

(***************************************************************************)
(* Bounds of the explored inputs.                                          *)
(***************************************************************************)
MaxBlocks == 2
MaxChunks == 3
MaxTrendBlocks == 5

(***************************************************************************)
(* Small helpers.                                                          *)
(***************************************************************************)
Min(S) == CHOOSE x \in S : \A y \in S : x <= y
Max(S) == CHOOSE x \in S : \A y \in S : x >= y

RECURSIVE Sum(_)
Sum(s) == IF s = <<>> THEN 0 ELSE Head(s) + Sum(Tail(s))

RECURSIVE Flatten(_)
Flatten(ss) == IF ss = <<>> THEN <<>> ELSE Head(ss) \o Flatten(Tail(ss))

Range(s) == {s[i] : i \in 1..Len(s)}

(***************************************************************************)
(* Log lines.                                                              *)
(***************************************************************************)
Line(kind, ts, a, b, st) == [kind |-> kind, ts |-> ts, a |-> a, b |-> b, st |-> st]

\* an unrelated line of another subsystem; ts = 0 means it has no timestamp
OtherLine(ts) == Line("other", ts, 0, 0, "")

\* the six lines LatencyService writes for one statistics window
BlockLines(v) ==
    << Line("hdr", v.ts, 0, 0, ""),
       Line("samples", v.ts, v.sample_count, v.total_samples, ""),
       Line("p50", v.ts, v.p50, 0, ""),
       Line("p95", v.ts, v.p95, 0, ""),
       Line("p99", v.ts, v.p99, 0, ""),
       Line("status", v.ts, 0, 0, v.st) >>

\* a block with the lines whose kind is in `missing` dropped
PartialLines(v, missing) ==
    SelectSeq(BlockLines(v), LAMBDA l : l.kind \notin missing)

(***************************************************************************)
(* parse_logs: pattern.findall over the whole content.                     *)
(***************************************************************************)
\* first line at or after `from` that contains fragment `kind`, 0 if none
First(lg, kind, from) ==
    LET S == {j \in from..Len(lg) : lg[j].kind = kind}
    IN IF S = {} THEN 0 ELSE Min(S)

\* first line at or after `from` that contains a timestamp token, 0 if none
FirstTs(lg, from) ==
    LET S == {j \in from..Len(lg) : lg[j].ts # 0}
    IN IF S = {} THEN 0 ELSE Min(S)

\* next fragment strictly after line j (each fragment ends with \n), 0 if j = 0
After(lg, kind, j) == IF j = 0 THEN 0 ELSE First(lg, kind, j + 1)

\* leftmost match of the pattern at or after line i: the lazy .*? under
\* DOTALL skips any text, newlines included, up to the next fragment
MatchAt(lg, i) ==
    LET t   == FirstTs(lg, i)
        h   == IF t = 0 THEN 0 ELSE First(lg, "hdr", t)
        s   == After(lg, "samples", h)
        p50 == After(lg, "p50", s)
        p95 == After(lg, "p95", p50)
        p99 == After(lg, "p99", p95)
        k   == After(lg, "status", p99)
    IN [ok |-> k # 0, t |-> t, h |-> h, s |-> s,
        p50 |-> p50, p95 |-> p95, p99 |-> p99, k |-> k]

LatencySample(lg, m) ==
    [timestamp         |-> lg[m.t].ts,
     sample_count      |-> lg[m.s].a,
     total_samples     |-> lg[m.s].b,
     p50_ms            |-> lg[m.p50].a,
     p95_ms            |-> lg[m.p95].a,
     p99_ms            |-> lg[m.p99].a,
     meets_requirement |-> (lg[m.k].st = "check")]

RECURSIVE FindAll(_, _)
FindAll(lg, i) ==
    LET m == MatchAt(lg, i)
    IN IF ~m.ok THEN <<>>
       ELSE <<LatencySample(lg, m)>> \o FindAll(lg, m.k + 1)

\* parse_logs reporting success whatever it found
parse_logs_always_true(exists, lg) ==
    LET found == IF exists THEN FindAll(lg, 1) ELSE <<>>
    IN [samples |-> found, ret |-> TRUE, out |-> <<"parsing", "found">>, err |-> <<>>]

\* the samples appended by parse_logs and its return value
parse_logs(exists, lg) ==
    IF ~exists
    THEN [samples |-> <<>>, ret |-> FALSE, out |-> <<>>, err |-> <<"not_found">>]
    ELSE LET found == FindAll(lg, 1)
         IN [samples |-> found, ret |-> Len(found) > 0,
             out |-> <<"parsing", "found">>, err |-> <<>>]

(***************************************************************************)
(* Exact fractions, for the averages, the duration and the sample rate.    *)
(* Denominators are always positive.                                       *)
(***************************************************************************)
Rat(n, d) == [num |-> n, den |-> d]
RatMul(x, y) == Rat(x.num * y.num, x.den * y.den)
RatDiv(x, y) == Rat(x.num * y.den, x.den * y.num)
RatLT(x, y) == x.num * y.den < y.num * x.den
RatGT(x, y) == RatLT(y, x)

(***************************************************************************)
(* Python list slicing and floor division.                                 *)
(***************************************************************************)
FloorDiv(a, b) == a \div b

\* s[:k] for k >= 0
SliceTo(s, k) == SubSeq(s, 1, IF k > Len(s) THEN Len(s) ELSE k)

\* s[k:] for any integer k (a negative k counts from the end)
SliceFrom(s, k) ==
    LET start == IF k < 0
                 THEN (IF Len(s) + k < 0 THEN 0 ELSE Len(s) + k)
                 ELSE (IF k > Len(s) THEN Len(s) ELSE k)
    IN SubSeq(s, start + 1, Len(s))

(***************************************************************************)
(* generate_report                                                         *)
(***************************************************************************)
P95_LIMIT == 100
P95_CLOSE == 90
AVG_P95_HIGH == 80
P99_OUTLIER == 150
MIN_SAMPLES == 3600
MIN_DURATION == 30

NoReport ==
    [kind |-> "none", total_samples |-> 0, failing_windows |-> 0,
     max_p95 |-> 0, min_p95 |-> 0, avg_p95 |-> Rat(0, 1),
     duration_minutes |-> Rat(0, 1), sample_rate |-> Rat(0, 1),
     p95_line |-> "", min_count_line |-> "", overall_line |-> "",
     warnings |-> <<>>, warnings_section |-> FALSE, detail_rows |-> 0]

PassFail(b) == IF b THEN "PASS" ELSE "FAIL"

\* the "Check for increasing trend" block
TrendWarning(p95_values) ==
    LET n == Len(p95_values)
    IN IF n >= 5
       THEN LET early_avg == Rat(Sum(SliceTo(p95_values, FloorDiv(n, 3))),
                                 FloorDiv(n, 3))
                late_avg  == Rat(Sum(SliceFrom(p95_values, FloorDiv(-n, 3))),
                                 FloorDiv(n, 3))
            IN IF RatGT(late_avg, RatMul(early_avg, Rat(6, 5)))
               THEN <<"p95_increasing">> ELSE <<>>
       ELSE <<>>

\* the hard warning drawn at the limit itself
PeakWarning_at_limit(max_p95) ==
    IF max_p95 >= P95_LIMIT THEN <<"p95_exceeded">>
    ELSE IF max_p95 > P95_CLOSE THEN <<"p95_close">>
    ELSE <<>>

\* the hard / soft peak warning
PeakWarning(max_p95) ==
    IF max_p95 > P95_LIMIT THEN <<"p95_exceeded">>
    ELSE IF max_p95 > P95_CLOSE THEN <<"p95_close">>
    ELSE <<>>

\* the P99 outlier warning drawn at 150 itself
OutlierWarning_at_limit(p99_values) ==
    IF Max(Range(p99_values)) >= P99_OUTLIER THEN <<"p99_outliers">> ELSE <<>>

\* the P99 outlier warning
OutlierWarning(p99_values) ==
    IF Max(Range(p99_values)) > P99_OUTLIER THEN <<"p99_outliers">> ELSE <<>>

\* the largest cumulative counter instead of the last one
TotalSamples_max(ss) == Max({ss[i].total_samples : i \in 1..Len(ss)})

\* total_samples = self.samples[-1].total_samples
TotalSamples(ss) == ss[Len(ss)].total_samples

\* the sum left undivided
AvgP95_sum(p95_values) == Rat(Sum(p95_values), 1)

AvgP95(p95_values) == Rat(Sum(p95_values), Len(p95_values))

\* the peak rule accepting the limit itself
ValidationPassed_le(failing_windows, max_p95, avg_p95, total_samples) ==
    /\ failing_windows = 0
    /\ max_p95 <= P95_LIMIT
    /\ RatLT(avg_p95, Rat(P95_LIMIT, 1))
    /\ total_samples >= MIN_SAMPLES

ValidationPassed(failing_windows, max_p95, avg_p95, total_samples) ==
    /\ failing_windows = 0
    /\ max_p95 < P95_LIMIT
    /\ RatLT(avg_p95, Rat(P95_LIMIT, 1))
    /\ total_samples >= MIN_SAMPLES

generate_report(ss, detailed) ==
    IF ss = <<>> THEN [NoReport EXCEPT !.kind = "empty"]
    ELSE
    LET p95_values == [i \in 1..Len(ss) |-> ss[i].p95_ms]
        p99_values == [i \in 1..Len(ss) |-> ss[i].p99_ms]
        total_samples == TotalSamples(ss)
        failing_windows == Cardinality({i \in 1..Len(ss) : ~ss[i].meets_requirement})
        max_p95 == Max(Range(p95_values))
        min_p95 == Min(Range(p95_values))
        avg_p95 == AvgP95(p95_values)
        duration_minutes == Rat(Len(ss), 2)
        sample_rate == IF duration_minutes.num > 0
                       THEN RatDiv(Rat(total_samples, 1),
                                   RatMul(duration_minutes, Rat(60, 1)))
                       ELSE Rat(0, 1)
        validation_passed ==
            ValidationPassed(failing_windows, max_p95, avg_p95, total_samples)
        warnings ==
            PeakWarning(max_p95)
            \o (IF RatGT(avg_p95, Rat(AVG_P95_HIGH, 1))
                THEN <<"avg_p95_high">> ELSE <<>>)
            \o OutlierWarning(p99_values)
            \o (IF total_samples < MIN_SAMPLES
                THEN <<"insufficient_samples">> ELSE <<>>)
            \o (IF RatLT(duration_minutes, Rat(MIN_DURATION, 1))
                THEN <<"session_too_short">> ELSE <<>>)
            \o TrendWarning(p95_values)
    IN [kind |-> "full",
        total_samples |-> total_samples,
        failing_windows |-> failing_windows,
        max_p95 |-> max_p95, min_p95 |-> min_p95, avg_p95 |-> avg_p95,
        duration_minutes |-> duration_minutes,
        sample_rate |-> sample_rate,
        p95_line |-> PassFail(max_p95 < P95_LIMIT),
        min_count_line |-> PassFail(total_samples >= MIN_SAMPLES),
        overall_line |-> PassFail(validation_passed),
        warnings |-> warnings,
        warnings_section |-> (warnings # <<>>),
        detail_rows |-> IF detailed THEN Len(ss) ELSE 0]

(***************************************************************************)
(* export_csv                                                              *)
(***************************************************************************)
CsvHeader == <<"timestamp", "sample_count", "total_samples",
               "p50_ms", "p95_ms", "p99_ms", "meets_requirement">>

CsvRow(s) == <<s.timestamp, s.sample_count, s.total_samples,
               s.p50_ms, s.p95_ms, s.p99_ms,
               IF s.meets_requirement THEN "True" ELSE "False">>

\* the handler letting the error of open() through
export_csv_reraise(ss, writable) ==
    IF ss = <<>>
    THEN [ret |-> FALSE, raised |-> FALSE, file |-> <<>>,
          out |-> <<>>, err |-> <<"no_samples_to_export">>]
    ELSE IF ~writable
    THEN [ret |-> FALSE, raised |-> TRUE, file |-> <<>>,
          out |-> <<>>, err |-> <<"traceback">>]
    ELSE [ret |-> TRUE, raised |-> FALSE, file |-> <<CsvHeader>> \o [i \in 1..Len(ss) |-> CsvRow(ss[i])],
          out |-> <<"exported">>, err |-> <<>>]

\* `raised` tells whether an exception leaves the method
export_csv(ss, writable) ==
    IF ss = <<>>
    THEN [ret |-> FALSE, raised |-> FALSE, file |-> <<>>,
          out |-> <<>>, err |-> <<"no_samples_to_export">>]
    ELSE IF ~writable
    THEN [ret |-> FALSE, raised |-> FALSE, file |-> <<>>,
          out |-> <<>>, err |-> <<"error_writing_csv">>]
    ELSE [ret |-> TRUE, raised |-> FALSE, file |-> <<CsvHeader>> \o [i \in 1..Len(ss) |-> CsvRow(ss[i])],
          out |-> <<"exported">>, err |-> <<>>]

(***************************************************************************)
(* main                                                                    *)
(***************************************************************************)
\* "✓ PASS" in report: the glyph followed by PASS occurs on the two rule
\* lines and on the overall line
ContainsPass(r) ==
    \/ r.p95_line = "PASS"
    \/ r.min_count_line = "PASS"
    \/ r.overall_line = "PASS"

ExitStatus(r) == IF ContainsPass(r) THEN 0 ELSE 1

\* analyzer = LatencyAnalyzer(...); analyzer.parse_logs() returned True
ParseLogsOk ==
    /\ pc = "start"
    /\ LET r == parse_logs(fileExists, log)
       IN /\ r.ret
          /\ samples' = samples \o r.samples
          /\ stdout' = stdout \o r.out
          /\ stderr' = stderr \o r.err
    /\ pc' = "report"
    /\ UNCHANGED <<log, fileExists, args, csvWritable, report, csvFile, exitCode>>

\* parse_logs() returned False: the messages and sys.exit(1)
ParseLogsFail ==
    /\ pc = "start"
    /\ LET r == parse_logs(fileExists, log)
       IN /\ ~r.ret
          /\ samples' = samples \o r.samples
          /\ stdout' = stdout \o r.out
          /\ stderr' = stderr \o r.err \o <<"no_statistics_found", "make_sure">>
    /\ exitCode' = 1
    /\ pc' = "exit"
    /\ UNCHANGED <<log, fileExists, args, csvWritable, report, csvFile>>

\* report = analyzer.generate_report(...); print(report)
GenerateReport ==
    /\ pc = "report"
    /\ report' = generate_report(samples, args.detailed)
    /\ stdout' = stdout \o <<"report">>
    /\ pc' = "export"
    /\ UNCHANGED <<log, fileExists, args, csvWritable, samples, stderr, csvFile, exitCode>>

\* if args.csv: analyzer.export_csv(args.csv)
ExportCsv ==
    /\ pc = "export"
    /\ IF args.csv
       THEN LET r == export_csv(samples, csvWritable)
            IN /\ csvFile' = r.file
               /\ stdout' = stdout \o r.out
               /\ stderr' = stderr \o r.err
               /\ IF r.raised
                  THEN /\ pc' = "exit"
                       /\ exitCode' = 1
                  ELSE /\ pc' = "sysexit"
                       /\ UNCHANGED exitCode
       ELSE /\ pc' = "sysexit"
            /\ UNCHANGED <<csvFile, stdout, stderr, exitCode>>
    /\ UNCHANGED <<log, fileExists, args, csvWritable, samples, report>>

\* sys.exit(0 if "✓ PASS" in report else 1)
Exit ==
    /\ pc = "sysexit"
    /\ exitCode' = ExitStatus(report)
    /\ pc' = "exit"
    /\ UNCHANGED <<log, fileExists, args, csvWritable, samples, report,
                   stdout, stderr, csvFile>>

Next ==
    \/ ParseLogsOk
    \/ ParseLogsFail
    \/ GenerateReport
    \/ ExportCsv
    \/ Exit

(***************************************************************************)
(* Initial states: the command line, the environment and the log file.     *)
(***************************************************************************)
\* everything but the log content
InitRun ==
    /\ args \in [detailed : BOOLEAN, csv : BOOLEAN]
    /\ csvWritable \in BOOLEAN
    /\ (~args.csv => csvWritable)
    /\ samples = <<>>
    /\ report = NoReport
    /\ stdout = <<>>
    /\ stderr = <<>>
    /\ csvFile = <<>>
    /\ pc = "start"
    /\ exitCode = -1

\* the file is missing, or it holds one of the logs of `logs`
InitLog(logs) ==
    \/ /\ fileExists = FALSE
       /\ log = <<>>
    \/ /\ fileExists = TRUE
       /\ log \in logs

\* a statistics window as LatencyService logs it
BlockVals(ts, cnt, tot, p50, p95, p99, st) ==
    [ts |-> ts, sample_count |-> cnt, total_samples |-> tot,
     p50 |-> p50, p95 |-> p95, p99 |-> p99, st |-> st]

\* logs of 1..n well-formed blocks with values drawn from vals; block k is
\* stamped with time k
WellFormedLogs(n, vals) ==
    UNION { { Flatten([k \in 1..m |-> BlockLines([f[k] EXCEPT !.ts = k])]) :
                f \in [1..m -> vals] } :
            m \in 1..n }

\* sessions for the validation rules
ReportP95 == {50, 95, 100, 101}
ReportTotals == {1800, 3600}
ReportVals ==
    { BlockVals(0, 1800, tot, 40, p95, 120, st) :
        tot \in ReportTotals, p95 \in ReportP95, st \in {"check", "warn"} }

InitReport ==
    /\ InitRun
    /\ InitLog(WellFormedLogs(MaxBlocks, ReportVals))

SpecReport == InitReport /\ [][Next]_vars

\* sessions for the trend heuristic
TrendP95 == {50, 60, 61}
TrendVals == { BlockVals(0, 720, 3600, 40, p95, 120, "check") : p95 \in TrendP95 }

InitTrend ==
    /\ InitRun
    /\ InitLog(WellFormedLogs(MaxTrendBlocks, TrendVals))

SpecTrend == InitTrend /\ [][Next]_vars

\* the three-block session with P95 50, 60, 70 and 3600 samples at the end
ScenarioP95 == <<50, 60, 70>>
ScenarioVals ==
    { BlockVals(0, cnt, tot, 40, 0, p99, "check") :
        cnt \in {1200, 3600}, tot \in {1200, 3600}, p99 \in {90, 150} }

ScenarioLogs ==
    { Flatten([k \in 1..3 |->
                 BlockLines([f[k] EXCEPT !.ts = k, !.p95 = ScenarioP95[k]])]) :
        f \in { g \in [1..3 -> ScenarioVals] : g[3].total_samples = 3600 } }

InitScenario ==
    /\ InitRun
    /\ InitLog(ScenarioLogs)

SpecScenario == InitScenario /\ [][Next]_vars

\* noisy logs: well-formed blocks, blocks with lines missing, unrelated lines
MissingSets ==
    { {"hdr"}, {"samples"}, {"p50"}, {"p95"}, {"p99"}, {"status"},
      {"p95", "p99", "status"}, {"hdr", "samples", "p50"} }

ChunkShapes ==
    { [shape |-> "block", st |-> st, missing |-> {}] : st \in {"check", "WARNING"} }
    \cup { [shape |-> "block", st |-> "check", missing |-> ms] : ms \in MissingSets }
    \cup { [shape |-> sh, st |-> "", missing |-> {}] : sh \in {"other", "other_no_ts"} }

\* every value of chunk k is k, so a sample shows where each field came from
Chunk(k, c) ==
    IF c.shape = "block"
    THEN PartialLines(BlockVals(k, k, k, k, k, k, c.st), c.missing)
    ELSE <<OtherLine(IF c.shape = "other" THEN k ELSE 0)>>

NoisyLogs ==
    UNION { { Flatten([k \in 1..m |-> Chunk(k, f[k])]) : f \in [1..m -> ChunkShapes] } :
            m \in 1..MaxChunks }

InitParse ==
    /\ InitRun
    /\ InitLog(NoisyLogs)

SpecParse == InitParse /\ [][Next]_vars

Spec == SpecReport

(***************************************************************************)
(* Properties.  The quantities below are restated from the samples, not    *)
(* taken from the report.                                                  *)
(***************************************************************************)
Reported == report.kind = "full"
NumBlocks == Len(samples)
P95Values == [i \in 1..NumBlocks |-> samples[i].p95_ms]
PeakP95 == CHOOSE m \in Range(P95Values) : \A x \in Range(P95Values) : x <= m
FailingWindows == Cardinality({i \in 1..NumBlocks : ~samples[i].meets_requirement})
LastTotal == samples[NumBlocks].total_samples
AvgP95Below(limit) == Sum(P95Values) < limit * NumBlocks
Warned(w) == \E i \in 1..Len(report.warnings) : report.warnings[i] = w

\* C1: a run on an existing log file exits 0 exactly when a sample was
\* extracted and the overall verdict is PASS; an overall FAIL exits 1
\* whatever the per-rule lines show.
C1_ExitZeroIffOverallPass ==
    (pc = "exit" /\ fileExists) =>
        (exitCode = 0 <=> (samples # <<>> /\ report.overall_line = "PASS"))

\* C2: the overall verdict is PASS exactly when the four rules hold together:
\* no failing window, peak P95 below 100, average P95 below 100, and at
\* least 3600 total samples.
C2_OverallIffFourRules ==
    Reported =>
        (report.overall_line = "PASS" <=>
            /\ FailingWindows = 0
            /\ PeakP95 < 100
            /\ AvgP95Below(100)
            /\ LastTotal >= 3600)

C2_Witness ==
    /\ Reported
    /\ NumBlocks >= 2
    /\ report.overall_line = "PASS"

\* C3: the increasing-trend warning is emitted exactly when there are at
\* least five blocks and the mean of the last n // 3 P95 values exceeds 1.2
\* times the mean of the first n // 3.
C3_TrendIffLastThirdAbove ==
    Reported =>
        LET n == NumBlocks
            k == n \div 3
            early == Sum(SubSeq(P95Values, 1, k))
            late == Sum(SubSeq(P95Values, n - k + 1, n))
        IN Warned("p95_increasing") <=> (n >= 5 /\ 5 * late > 6 * early)

\* next line after j that is not an unrelated line, 0 if none
NextRequired(lg, j) ==
    LET S == {i \in (j + 1)..Len(lg) : lg[i].kind # "other"}
    IN IF S = {} THEN 0 ELSE CHOOSE i \in S : \A x \in S : i <= x

\* line j has fragment `kind`
IsKind(lg, j, kind) == j # 0 /\ lg[j].kind = kind

\* a well-formed block starts at line j: its six lines follow one another,
\* with unrelated lines at most in between
WellFormedAt(lg, j) ==
    LET s   == NextRequired(lg, j)
        a   == IF s = 0 THEN 0 ELSE NextRequired(lg, s)
        b   == IF a = 0 THEN 0 ELSE NextRequired(lg, a)
        c   == IF b = 0 THEN 0 ELSE NextRequired(lg, b)
        k   == IF c = 0 THEN 0 ELSE NextRequired(lg, c)
    IN /\ lg[j].kind = "hdr" /\ lg[j].ts # 0
       /\ IsKind(lg, s, "samples") /\ IsKind(lg, a, "p50") /\ IsKind(lg, b, "p95")
       /\ IsKind(lg, c, "p99") /\ IsKind(lg, k, "status")

WellFormedStarts(lg) == {j \in 1..Len(lg) : WellFormedAt(lg, j)}

\* the i-th smallest element of a set of numbers
RECURSIVE Nth(_, _)
Nth(S, i) ==
    LET m == CHOOSE x \in S : \A y \in S : x <= y
    IN IF i = 1 THEN m ELSE Nth(S \ {m}, i - 1)

\* C4: parse_logs yields exactly one sample per well-formed block, in order
\* of appearance, and none for a block with a line missing.
C4_OneSamplePerWellFormedBlock ==
    (fileExists /\ pc # "start") =>
        /\ Len(samples) = Cardinality(WellFormedStarts(log))
        /\ \A i \in 1..Len(samples) :
             LET j == Nth(WellFormedStarts(log), i)
                 v == log[j].ts
             IN /\ samples[i].sample_count = v
                /\ samples[i].p50_ms = v
                /\ samples[i].p95_ms = v
                /\ samples[i].p99_ms = v

\* the session of the scenario: three passing blocks, P95 50, 60, 70, 3600
\* total samples at the end, no P99 above 150
IsScenario ==
    /\ NumBlocks = 3
    /\ P95Values = <<50, 60, 70>>
    /\ FailingWindows = 0
    /\ LastTotal = 3600
    /\ \A i \in 1..3 : samples[i].p99_ms <= 150

\* C5 as stated: the scenario gives overall PASS and no warning at all.
C5_ScenarioNoWarnings ==
    (Reported /\ IsScenario) =>
        /\ report.overall_line = "PASS"
        /\ report.warnings = <<>>
        /\ ~report.warnings_section

\* C5: the scenario gives overall PASS and exactly one warning, the
\* short-session one (three blocks are 1.5 minutes, below 30).
C5_ScenarioOnlyShortSession ==
    (Reported /\ IsScenario) =>
        /\ report.overall_line = "PASS"
        /\ report.warnings = <<"session_too_short">>
        /\ report.warnings_section

C5_Witness ==
    /\ Reported
    /\ IsScenario
    /\ \E i \in 1..3 : samples[i].p99_ms = 150

\* C6: when the CSV export is requested and fails, the report was produced
\* and printed before the attempt, the failure is reported and does not leave
\* export_csv (main goes on to its sys.exit line), and the exit code is the
\* one the report alone decides.
C6_ExportFailureHarmless ==
    /\ [][ (pc = "export" /\ args.csv /\ ~csvWritable) =>
              /\ Reported
              /\ \E i \in 1..Len(stdout) : stdout[i] = "report"
              /\ pc' = "sysexit"
              /\ report' = report
              /\ stderr' = stderr \o <<"error_writing_csv">> ]_vars
    /\ []( (pc = "exit" /\ args.csv /\ ~csvWritable /\ samples # <<>>) =>
              exitCode = ExitStatus(report) )

C6_Witness ==
    /\ pc = "exit"
    /\ args.csv /\ ~csvWritable
    /\ exitCode = 0
    /\ \E i \in 1..Len(stderr) : stderr[i] = "error_writing_csv"

\* some region of the log matches the pattern: a timestamp, then the six
\* fragments on successive lines in order
SomeBlockMatches(lg) ==
    \E h \in 1..Len(lg) :
      /\ lg[h].kind = "hdr"
      /\ \E t \in 1..h : lg[t].ts # 0
      /\ \E s \in (h + 1)..Len(lg) :
           /\ lg[s].kind = "samples"
           /\ \E a \in (s + 1)..Len(lg) :
                /\ lg[a].kind = "p50"
                /\ \E b \in (a + 1)..Len(lg) :
                     /\ lg[b].kind = "p95"
                     /\ \E c \in (b + 1)..Len(lg) :
                          /\ lg[c].kind = "p99"
                          /\ \E k \in (c + 1)..Len(lg) : lg[k].kind = "status"

\* C7: when the file exists and no block matches, the samples stay empty and
\* the run ends with exit code 1 after the no-samples message, with no
\* report and no CSV export, also when the CSV flag is given.
C7_NoMatchExitsOne ==
    (fileExists /\ pc # "start" /\ ~SomeBlockMatches(log)) =>
        /\ samples = <<>>
        /\ pc = "exit"
        /\ exitCode = 1
        /\ stderr = <<"no_statistics_found", "make_sure">>
        /\ report.kind = "none"
        /\ \A i \in 1..Len(stdout) : stdout[i] \notin {"report", "exported"}
        /\ csvFile = <<>>

C7_Witness ==
    /\ fileExists
    /\ pc = "exit"
    /\ Len(log) >= 5
    /\ ~SomeBlockMatches(log)
    /\ args.csv /\ csvWritable

\* C8: the total used by the aggregate, by the volume rule and by the sample
\* rate is the total_samples field of the last sample.
C8_TotalIsLastSample ==
    Reported =>
        /\ report.total_samples = LastTotal
        /\ (report.min_count_line = "PASS" <=> LastTotal >= 3600)
        /\ (Warned("insufficient_samples") <=> LastTotal < 3600)
        /\ report.sample_rate.num * 30 * NumBlocks = LastTotal * report.sample_rate.den

\* the last total is below an earlier one, and differs from the sums
C8_Witness ==
    /\ Reported
    /\ NumBlocks = 2
    /\ samples[1].total_samples = 3600
    /\ samples[2].total_samples = 1800
    /\ report.min_count_line = "FAIL"

\* C9 as stated: whenever the peak rule fails (peak P95 at or above 100) the
\* hard warning is present and the soft one absent.
C9_PeakFailHasHardWarning ==
    (Reported /\ report.p95_line = "FAIL") =>
        (Warned("p95_exceeded") /\ ~Warned("p95_close"))

\* C9: above 100 the hard warning is present and the soft one absent; at
\* exactly 100 the peak rule fails but the soft warning is the one emitted.
C9_HardAboveSoftAtLimit ==
    Reported =>
        /\ (PeakP95 > 100 =>
              report.p95_line = "FAIL" /\ Warned("p95_exceeded") /\ ~Warned("p95_close"))
        /\ (PeakP95 = 100 =>
              report.p95_line = "FAIL" /\ Warned("p95_close") /\ ~Warned("p95_exceeded"))

C9_Witness ==
    /\ Reported
    /\ PeakP95 = 100
    /\ report.p95_line = "FAIL"

\* C10: a peak P95 below 100 forces the average below 100, so the verdict is
\* the conjunction of the three other rules.
C10_AverageRuleRedundant ==
    Reported =>
        /\ (PeakP95 < 100 => RatLT(report.avg_p95, Rat(100, 1)))
        /\ (report.overall_line = "PASS" <=>
              (FailingWindows = 0 /\ PeakP95 < 100 /\ LastTotal >= 3600))

C10_Witness ==
    /\ Reported
    /\ NumBlocks >= 2
    /\ samples[1].p95_ms # samples[2].p95_ms
    /\ PeakP95 < 100
    /\ report.overall_line = "PASS"

====
